---- MODULE Spec2Model ----
(***************************************************************************)
(* External sort of a line-oriented text file (extsort.py).                *)
(*                                                                         *)
(* ExternalSort.sort splits the input into sorted block files              *)
(* (FileSplitter.split / write_block), merges the block files into the     *)
(* output (FileMerger.merge with FilesArray and NWayMerge.select) and      *)
(* removes the block files (FileSplitter.cleanup).                         *)
(*                                                                         *)
(* A file is the sequence of its characters.  Characters are small         *)
(* numbers ordered like their byte values: NL is the line terminator '\n', *)
(* which sorts below every letter.  A record (line) is a non-empty         *)
(* sequence of characters that ends with NL, except that the last line of  *)
(* a file may lack the terminator.                                         *)
(***************************************************************************)
EXTENDS Integers, Sequences, FiniteSets, TLC

\* ---------------------------------------------------------------- bounds
MaxFileLen == 5      \* characters in the input file
MaxBudget == 5       \* largest block_size (memory budget) tried
MaxStat == 2         \* largest os.stat(filename).st_size tried
MaxChunk == 2        \* largest internal read buffer of readlines tried
MaxStreams == 2      \* streams of a FilesArray driven directly
MaxBlockLen == 1     \* characters in a file of such a stream

\* ------------------------------------------------------------ data model
NL == 0
Chars == {NL, 1, 2}

\* Python's None in a buffer or in min_str: a value no string equals.
None == <<-1>>

\* The sort_key arguments tried: None (records compare by their own value)
\* and the key function len.
SortKeys == {"None", "len"}

\* The file system without block files.
NoFiles == [n \in {} |-> <<>>]

BoundedSeq(S, n) == UNION {[1..k -> S] : k \in 0..n}

Range(s) == {s[k] : k \in DOMAIN s}

\* str.__lt__: lexicographic order on character sequences.
RECURSIVE StrLess(_, _)
StrLess(a, b) ==
    IF b = <<>> THEN FALSE
    ELSE IF a = <<>> THEN TRUE
    ELSE IF a[1] # b[1] THEN a[1] < b[1]
    ELSE StrLess(Tail(a), Tail(b))

\* ''.join(lines)
RECURSIVE join(_)
join(ls) == IF ls = <<>> THEN <<>> ELSE Head(ls) \o join(Tail(ls))

\* Index of the last character of the line that starts at index p of s.
RECURSIVE LineEnd(_, _)
LineEnd(s, p) ==
    IF p > Len(s) THEN Len(s)
    ELSE IF s[p] = NL THEN p
    ELSE LineEnd(s, p + 1)

\* file.readline() with pos characters already consumed: the next line with
\* its terminator, the unterminated rest at the end of the file, or '' at
\* end of file.
readline(s, pos) == SubSeq(s, pos + 1, LineEnd(s, pos + 1))

\* The records of a text: its lines, as readline returns them one by one.
RECURSIVE LinesFrom(_, _)
LinesFrom(s, pos) ==
    IF readline(s, pos) = <<>> THEN <<>>
    ELSE <<readline(s, pos)>> \o LinesFrom(s, pos + Len(readline(s, pos)))

Lines(s) == LinesFrom(s, 0)

Min(a, b) == IF a <= b THEN a ELSE b

\* Is there a terminator among the n characters of s after offset from?
HasNL(s, from, n) == \E k \in (from + 1)..(from + n) : s[k] = NL

\* Offset of the last terminator among the n characters of s after from.
LastNL(s, from, n) ==
    CHOOSE k \in (from + 1)..(from + n) :
        s[k] = NL /\ \A m \in (k + 1)..(from + n) : s[m] # NL

\* The read loop of file.readlines(sizehint), sizehint > 0: the offset at
\* which the run it returns ends.  Each pass reads up to buffersize - nfilled
\* characters behind the nfilled characters of an incomplete line.  A pass
\* that finds no terminator doubles the buffer and reads on; a pass that
\* finds one stops the loop once totalread has reached sizehint, and the
\* incomplete line left in the buffer is then read to its end.  At the end
\* of the file the loop stops with what it has.
RECURSIVE readlines_end(_, _, _, _, _, _)
readlines_end(s, pos, nfilled, buffersize, totalread, sizehint) ==
    LET nread == Min(buffersize - nfilled, Len(s) - pos) IN
    IF nread = 0 THEN Len(s)
    ELSE IF ~HasNL(s, pos, nread)
         THEN readlines_end(s, pos + nread, nfilled + nread, buffersize * 2,
                            totalread + nread, sizehint)
    ELSE IF totalread + nread >= sizehint THEN LineEnd(s, pos + nread)
    ELSE readlines_end(s, pos + nread, pos + nread - LastNL(s, pos, nread),
                       buffersize, totalread + nread, sizehint)

\* file.readlines(sizehint) with pos characters already consumed: whole
\* lines totalling about sizehint characters, rounded up by the internal
\* buffer of chunksize characters the read loop starts with.
readlines(s, pos, sizehint, chunksize) ==
    Lines(SubSeq(s, pos + 1, readlines_end(s, pos, 0, chunksize, 0, sizehint)))

\* The comparison list.sort uses: a < b on the records themselves, or on
\* their keys when a key function is given.
KeyLess(key, a, b) ==
    IF key = "None" THEN StrLess(a, b) ELSE Len(a) < Len(b)

\* list.sort is stable: x goes after every element that is not greater.
RECURSIVE Insert(_, _, _)
Insert(key, s, x) ==
    IF s = <<>> THEN <<x>>
    ELSE IF KeyLess(key, x, s[Len(s)])
         THEN Insert(key, SubSeq(s, 1, Len(s) - 1), x) \o <<s[Len(s)]>>
         ELSE s \o <<x>>

RECURSIVE list_sort(_, _)
list_sort(key, ls) ==
    IF Len(ls) <= 1 THEN ls
    ELSE Insert(key, list_sort(key, SubSeq(ls, 1, Len(ls) - 1)), ls[Len(ls)])

\* ----------------------------------------------------------------- state
VARIABLES
    infile,           \* text of the input file (decompressed)
    block_size,       \* ExternalSort.block_size
    sort_key,         \* the sort_key argument of sort
    chunk,            \* internal read buffer size of the runtime's readlines
    pc,               \* position of the control flow
    num_blocks,       \* local of ExternalSort.sort
    buffer_size,      \* local of ExternalSort.sort
    inpos,            \* characters of the input consumed by split
    i,                \* local i of FileSplitter.split
    lines,            \* local lines of FileSplitter.split
    block_filenames,  \* FileSplitter.block_filenames (block numbers)
    fs,               \* the block files that exist: block number -> text
    files,            \* FilesArray.files: per stream, block number and offset
    empty,            \* FilesArray.empty
    num_buffers,      \* FilesArray.num_buffers
    buffers,          \* FilesArray.buffers
    min_index,        \* local min_index of FileMerger.merge
    out,              \* the records written to the output file, in order
    taken             \* per record of out, the stream it was taken from

vars == <<infile, block_size, sort_key, chunk, pc, num_blocks, buffer_size, inpos, i,
          lines, block_filenames, fs, files, empty, num_buffers, buffers,
          min_index, out, taken>>

inputVars == <<infile, block_size, sort_key, chunk>>
splitVars == <<inpos, i, lines, block_filenames>>
mergeVars == <<files, empty, num_buffers, buffers, min_index, out, taken>>

Init ==
    /\ infile \in BoundedSeq(Chars, MaxFileLen)
    /\ block_size \in 1..MaxBudget
    /\ sort_key \in SortKeys
    /\ chunk \in 1..MaxChunk
    /\ pc = "sort"
    /\ num_blocks = 0
    /\ buffer_size = 0
    /\ inpos = 0
    /\ i = 0
    /\ lines = <<>>
    /\ block_filenames = <<>>
    /\ fs = NoFiles
    /\ files = <<>>
    /\ empty = {}
    /\ num_buffers = 0
    /\ buffers = <<>>
    /\ min_index = -1
    /\ out = <<>>
    /\ taken = <<>>

\* ------------------------------------------------------- ExternalSort.sort
\* get_number_blocks: st_size is the size of the stored (bz2) input file,
\* which is not the length of its text.
get_number_blocks(st_size, bsize) == (st_size \div bsize) + 1

SortStart ==
    /\ pc = "sort"
    /\ \E st_size \in 0..MaxStat :
          num_blocks' = get_number_blocks(st_size, block_size)
    /\ pc' = "split"
    /\ UNCHANGED <<inputVars, buffer_size, splitVars, fs, mergeVars>>

\* ------------------------------------------------------ FileSplitter.split
\* file = self.get_file_obj(self.filename, 'r'); i = 0
SplitOpen ==
    /\ pc = "split"
    /\ inpos' = 0
    /\ i' = 0
    /\ pc' = "readlines"
    /\ UNCHANGED <<inputVars, num_blocks, buffer_size, lines, block_filenames,
                   fs, mergeVars>>

\* One pass of the loop up to write_block: read a run, stop when it is
\* empty, sort it.
SplitReadLines ==
    /\ pc = "readlines"
    /\ LET run == readlines(infile, inpos, block_size, chunk) IN
       /\ inpos' = inpos + Len(join(run))
       /\ IF run = <<>>
          THEN /\ lines' = run
               /\ pc' = "merge"
          ELSE /\ lines' = list_sort(sort_key, run)
               /\ pc' = "write_block_open"
    /\ UNCHANGED <<inputVars, num_blocks, buffer_size, i, block_filenames, fs,
                   mergeVars>>

\* open(filename, 'w') creates block file number i, or truncates it.
create(store, n) == [m \in DOMAIN store \cup {n} |-> IF m = n THEN <<>> ELSE store[m]]

WriteBlockOpen ==
    /\ pc = "write_block_open"
    /\ fs' = create(fs, i)
    /\ pc' = "write_block_write"
    /\ UNCHANGED <<inputVars, num_blocks, buffer_size, splitVars, mergeVars>>

\* file.write(data) with data = ''.join(lines)
WriteBlockWrite ==
    /\ pc = "write_block_write"
    /\ fs' = [fs EXCEPT ![i] = @ \o join(lines)]
    /\ pc' = "write_block_close"
    /\ UNCHANGED <<inputVars, num_blocks, buffer_size, splitVars, mergeVars>>

\* file.close(); self.block_filenames.append(filename); then i += 1 in split.
WriteBlockClose ==
    /\ pc = "write_block_close"
    /\ block_filenames' = Append(block_filenames, i)
    /\ i' = i + 1
    /\ pc' = "readlines"
    /\ UNCHANGED <<inputVars, num_blocks, buffer_size, inpos, lines, fs,
                   mergeVars>>

\* ------------------------------------------------------- FileMerger.merge
\* buffer_size = self.block_size / (num_blocks + 1), then merge opens the
\* output, opens one stream per block file and builds the FilesArray.
\* get_file_handles that opens the first file for every stream.
get_file_handles_first(filenames) ==
    [j \in 0..(Len(filenames) - 1) |-> [name |-> filenames[1], pos |-> 0]]

get_file_handles(filenames) ==
    [j \in 0..(Len(filenames) - 1) |-> [name |-> filenames[j + 1], pos |-> 0]]

MergeOpen ==
    /\ pc = "merge"
    /\ buffer_size' = block_size \div (num_blocks + 1)
    /\ files' = get_file_handles(block_filenames)
    /\ empty' = {}
    /\ num_buffers' = Len(block_filenames)
    /\ buffers' = [j \in 0..(Len(block_filenames) - 1) |-> None]
    /\ out' = <<>>
    /\ taken' = <<>>
    /\ pc' = "refresh"
    /\ UNCHANGED <<inputVars, num_blocks, splitVars, fs, min_index>>

\* get_dict without the test for exhausted streams.
get_dict_with_exhausted == [j \in 0..(num_buffers - 1) |-> buffers[j]]

\* FilesArray.get_dict
get_dict == [j \in {k \in 0..(num_buffers - 1) : k \notin empty} |-> buffers[j]]

\* refresh without the test for a held record: every live stream is read.
NeedsRead_every_live(j) == j \notin empty

\* FilesArray.refresh: the streams it reads from, and its effect on each.
NeedsRead(j) == buffers[j] = None /\ j \notin empty

ReadOf(j) == readline(fs[files[j].name], files[j].pos)

refresh_buffers ==
    [j \in 0..(num_buffers - 1) |-> IF NeedsRead(j) THEN ReadOf(j) ELSE buffers[j]]

\* refresh that reads a line and leaves the stream where it was.
refresh_files_not_advanced == files

refresh_files ==
    [j \in 0..(num_buffers - 1) |->
        IF NeedsRead(j) THEN [files[j] EXCEPT !.pos = @ + Len(ReadOf(j))]
        ELSE files[j]]

\* refresh that takes a blank line for the end of the stream.
refresh_empty_on_blank ==
    empty \cup {j \in 0..(num_buffers - 1) :
                  NeedsRead(j) /\ ReadOf(j) \in {<<>>, <<NL>>}}

refresh_empty ==
    empty \cup {j \in 0..(num_buffers - 1) : NeedsRead(j) /\ ReadOf(j) = <<>>}

\* refresh with the end test skipped while no stream has been exhausted.
refresh_result_unless_none_empty ==
    refresh_empty = {} \/ Cardinality(refresh_empty) # num_buffers

\* The value refresh returns.
refresh_result == Cardinality(refresh_empty) # num_buffers

\* while buffers.refresh():
Refresh ==
    /\ pc = "refresh"
    /\ buffers' = refresh_buffers
    /\ files' = refresh_files
    /\ empty' = refresh_empty
    /\ pc' = IF refresh_result THEN "select" ELSE "cleanup"
    /\ UNCHANGED <<inputVars, num_blocks, buffer_size, splitVars, fs,
                   num_buffers, min_index, out, taken>>

\* NWayMerge.select: the loop over range(len(choices)).  min_str is never
\* assigned in the loop.
RECURSIVE select_loop(_, _, _, _)
select_loop(choices, k, idx, min_str) ==
    IF k >= Cardinality(DOMAIN choices) THEN idx
    ELSE IF min_str = None \/ StrLess(choices[k], min_str)
         THEN select_loop(choices, k + 1, k, min_str)
         ELSE select_loop(choices, k + 1, idx, min_str)

\* select with its loop started at the second choice.
select_from_second(choices) == select_loop(choices, 1, -1, None)

select(choices) == select_loop(choices, 0, -1, None)

\* min_index = select(get_dict()); outfile.write(buffers.unshift(min_index)).
\* unshift raises KeyError for an index that is no stream, and write raises
\* TypeError for None.
SelectWrite ==
    /\ pc = "select"
    /\ min_index' = select(get_dict)
    /\ IF min_index' \notin DOMAIN buffers
       THEN /\ pc' = "error"
            /\ UNCHANGED <<buffers, out, taken>>
       ELSE /\ buffers' = [buffers EXCEPT ![min_index'] = None]
            /\ IF buffers[min_index'] = None
               THEN /\ pc' = "error"
                    /\ UNCHANGED <<out, taken>>
               ELSE /\ out' = Append(out, buffers[min_index'])
                    /\ taken' = Append(taken, min_index')
                    /\ pc' = "refresh"
    /\ UNCHANGED <<inputVars, num_blocks, buffer_size, splitVars, fs, files,
                   empty, num_buffers>>

\* ---------------------------------------------------- FileSplitter.cleanup
\* os.remove for every name of block_filenames (the program is Python 2:
\* map is evaluated at once, and / on integers is floor division).
\* cleanup whose map is never evaluated: nothing is removed.
remove_nothing(store, names) == store

remove(store, names) == [m \in DOMAIN store \ names |-> store[m]]

Cleanup ==
    /\ pc = "cleanup"
    /\ fs' = remove(fs, Range(block_filenames))
    /\ pc' = "done"
    /\ UNCHANGED <<inputVars, num_blocks, buffer_size, splitVars, mergeVars>>

Next ==
    \/ SortStart
    \/ SplitOpen
    \/ SplitReadLines
    \/ WriteBlockOpen
    \/ WriteBlockWrite
    \/ WriteBlockClose
    \/ MergeOpen
    \/ Refresh
    \/ SelectWrite
    \/ Cleanup

Spec == Init /\ [][Next]_vars

\* The program is one sequential thread: a step that can be taken is taken.
SpecFair == Spec /\ WF_vars(Next)

\* ------------------------------------------------- I/O failure during split
\* The points of split where an I/O operation can raise: opening the input,
\* readlines, and open / write / close of a block file.
SplitIOPoints ==
    {"split", "readlines", "write_block_open", "write_block_write",
     "write_block_close"}

\* The operation at pc raises and split is left.  A failed open creates no
\* file; a failed write may have stored any prefix of the data; a failed
\* close leaves the file as written.  Nothing is appended to
\* block_filenames on the way out.
IOFailure ==
    /\ pc \in SplitIOPoints
    /\ IF pc = "write_block_write"
       THEN \E n \in 0..Len(join(lines)) :
               fs' = [fs EXCEPT ![i] = @ \o SubSeq(join(lines), 1, n)]
       ELSE UNCHANGED fs
    /\ pc' = "aborted"
    /\ UNCHANGED <<inputVars, num_blocks, buffer_size, splitVars, mergeVars>>

\* The caller calls splitter.cleanup() after the aborted split.
CleanupAfterAbort ==
    /\ pc = "aborted"
    /\ fs' = remove(fs, Range(block_filenames))
    /\ pc' = "cleaned"
    /\ UNCHANGED <<inputVars, num_blocks, buffer_size, splitVars, mergeVars>>

NextIO ==
    \/ Next
    \/ IOFailure
    \/ CleanupAfterAbort

SpecIO == Init /\ [][NextIO]_vars

\* ------------------------------- FilesArray and NWayMerge driven directly
\* A FilesArray built over any files, and a caller that calls refresh,
\* unshift and select in any order, select on whatever get_dict returns
\* (also after refresh has returned False).
InitArray ==
    /\ infile = <<>>
    /\ block_size = 1
    /\ sort_key = "None"
    /\ chunk = 1
    /\ pc = "array"
    /\ num_blocks = 0
    /\ buffer_size = 0
    /\ inpos = 0
    /\ i = 0
    /\ lines = <<>>
    /\ \E n \in 0..MaxStreams :
          /\ block_filenames = [k \in 1..n |-> k - 1]
          /\ fs \in [0..(n - 1) -> BoundedSeq(Chars, MaxBlockLen)]
          /\ num_buffers = n
          /\ buffers = [j \in 0..(n - 1) |-> None]
    /\ files = get_file_handles(block_filenames)
    /\ empty = {}
    /\ min_index = -1
    /\ out = <<>>
    /\ taken = <<>>

\* buffers.refresh()
ArrayRefresh ==
    /\ pc = "array"
    /\ buffers' = refresh_buffers
    /\ files' = refresh_files
    /\ empty' = refresh_empty
    /\ UNCHANGED <<inputVars, pc, num_blocks, buffer_size, splitVars, fs,
                   num_buffers, min_index, out, taken>>

\* buffers.unshift(index) for a stream index
ArrayUnshift ==
    /\ pc = "array"
    /\ \E index \in DOMAIN buffers :
          buffers' = [buffers EXCEPT ![index] = None]
    /\ UNCHANGED <<inputVars, pc, num_blocks, buffer_size, splitVars, fs,
                   files, empty, num_buffers, min_index, out, taken>>

\* min_index = select(buffers.get_dict()): select has no raise statement,
\* the call returns and the caller goes on.
ArraySelect ==
    /\ pc = "array"
    /\ min_index' = select(get_dict)
    /\ UNCHANGED <<inputVars, pc, num_blocks, buffer_size, splitVars, fs,
                   files, empty, num_buffers, buffers, out, taken>>

NextArray ==
    \/ ArrayRefresh
    \/ ArrayUnshift
    \/ ArraySelect

SpecArray == InitArray /\ [][NextArray]_vars

\* ------------------------------------------------------------- properties
\* The text of the output file, and its records.
OutputText == join(out)
OutputRecords == Lines(OutputText)
InputRecords == Lines(infile)

Count(seq, x) == Cardinality({k \in DOMAIN seq : seq[k] = x})

SameMultiset(a, b) == \A x \in Range(a) \cup Range(b) : Count(a, x) = Count(b, x)

\* a <= b under the configured ordering.
LessEq(a, b) == ~KeyLess(sort_key, b, a)

NonDecreasing(seq) == \A k \in 1..(Len(seq) - 1) : LessEq(seq[k], seq[k + 1])

IsPrefix(a, b) == Len(a) <= Len(b) /\ a = SubSeq(b, 1, Len(a))

\* C1: once sort has finished, every adjacent pair of records (a, b) of the
\* output satisfies a <= b under the configured ordering.
C1_OutputSorted == pc = "done" => NonDecreasing(OutputRecords)

\* C2: the multiset of records in the output of split followed by merge
\* equals the multiset of input records.
C2_MultisetPreserved == pc = "done" => SameMultiset(OutputRecords, InputRecords)

\* C3: given the non-empty mapping of active streams, select returns an
\* active index whose pending record is smallest: no active stream holds a
\* strictly smaller record.
C3_SelectReturnsSmallest ==
    pc = "select" =>
        /\ select(get_dict) \in DOMAIN get_dict
        /\ \A j \in DOMAIN get_dict :
              ~KeyLess(sort_key, get_dict[j], get_dict[select(get_dict)])

\* The active streams whose pending record is smallest.
Smallest(choices) ==
    {j \in DOMAIN choices :
        \A k \in DOMAIN choices : ~KeyLess(sort_key, choices[k], choices[j])}

\* C4: when two or more active streams hold equal-ranked smallest records,
\* select returns the lowest of their indices.
C4_TieSelectsLowestIndex ==
    (pc = "select" /\ Cardinality(Smallest(get_dict)) >= 2) =>
        /\ select(get_dict) \in Smallest(get_dict)
        /\ \A j \in Smallest(get_dict) : select(get_dict) <= j

\* The output of a sort whose budget makes split produce one block: the
\* sorted run of all input records, copied by the merge.
OneBlockOutput == join(list_sort(sort_key, InputRecords))

\* C5: a sort that splits the input into many blocks writes the same output
\* as a sort of the same input with one block.
C5_BlockCountInvariant ==
    (pc = "done" /\ Len(block_filenames) >= 2) => OutputText = OneBlockOutput

\* C6: sorting an input that is already sorted under the key reproduces the
\* input record sequence unchanged, equal-key records in their input order,
\* for any number of blocks.
C6_SortedInputUnchanged ==
    (pc = "done" /\ NonDecreasing(InputRecords)) => OutputRecords = InputRecords

\* C7: for an empty input split creates no block (the block list stays
\* empty, no block file exists), the merge never gets past its first
\* refresh (it never selects, never fails) and writes no record.
C7_EmptyInput ==
    infile = <<>> =>
        /\ block_filenames = <<>>
        /\ DOMAIN fs = {}
        /\ out = <<>>
        /\ pc \in {"sort", "split", "readlines", "merge", "refresh", "cleanup", "done"}

C7_Witness == infile = <<>> /\ pc = "done" /\ num_buffers = 0 /\ out = <<>>

\* C8: with exactly one block the merge writes that block's records, in the
\* block's order, and stops when all are written; a single-record input
\* yields an output equal to the input.
C8_SingleBlockCopy ==
    /\ (num_buffers = 1 /\ pc \in {"refresh", "select", "cleanup"}) =>
          /\ IsPrefix(out, Lines(fs[files[0].name]))
          /\ pc = "cleanup" => out = Lines(fs[files[0].name])
    /\ Len(block_filenames) = 1 => pc # "error"
    /\ (pc = "done" /\ Len(InputRecords) = 1) => OutputText = infile

C8_Witness ==
    /\ pc = "cleanup"
    /\ num_buffers = 1
    /\ Len(out) >= 2
    /\ out = Lines(fs[files[0].name])

\* C9: after a completed sort no block file exists, and a step removes a
\* block file only once the merge has completed.
C9_CleanupAfterMerge ==
    /\ [](pc = "done" => DOMAIN fs = {})
    /\ [][DOMAIN fs \ DOMAIN fs' # {} => pc = "cleanup"]_vars

C9_Witness == pc = "done" /\ Len(block_filenames) >= 2 /\ DOMAIN fs = {}

\* C10: cleanup after a split aborted by an I/O failure leaves no block file
\* behind.
C10_AbortedSplitCleanedUp == pc = "cleaned" => DOMAIN fs = {}

\* C11: select called with an empty active set fails with NoActiveStreams
\* and returns no index: the call leaves the caller in the error
\* NoActiveStreams.
C11_EmptySelectFails ==
    [][(ArraySelect /\ DOMAIN get_dict = {}) => pc' = "NoActiveStreams"]_vars

\* The streams of the FilesArray and the records of each stream's block.
Streams == 0..(num_buffers - 1)
StreamLines(j) == Lines(fs[files[j].name])

\* The number of records written from stream j, and those records in the
\* order they were written.
TakenFrom(j) == Count(taken, j)

RECURSIVE OutFromUpTo(_, _)
OutFromUpTo(j, n) ==
    IF n = 0 THEN <<>>
    ELSE IF taken[n] = j THEN Append(OutFromUpTo(j, n - 1), out[n])
    ELSE OutFromUpTo(j, n - 1)

OutFrom(j) == OutFromUpTo(j, Len(out))

\* The number of records read from stream j so far.
ReadFrom(j) == Len(Lines(SubSeq(fs[files[j].name], 1, files[j].pos)))

InMerge == pc \in {"refresh", "select", "cleanup"}

\* C12: at every point of the merge the records written from a block are
\* the first records of the block in the block's order, none skipped, and
\* the pending record of a live stream is the block's next record, which in
\* a non-decreasing block is the smallest record not yet written.
C12_PendingIsNextOfBlock ==
    InMerge =>
        \A j \in Streams :
            /\ OutFrom(j) = SubSeq(StreamLines(j), 1, TakenFrom(j))
            /\ (j \notin empty /\ buffers[j] # None) =>
                  /\ TakenFrom(j) < Len(StreamLines(j))
                  /\ buffers[j] = StreamLines(j)[TakenFrom(j) + 1]
                  /\ NonDecreasing(StreamLines(j)) =>
                        \A m \in (TakenFrom(j) + 1)..Len(StreamLines(j)) :
                            LessEq(buffers[j], StreamLines(j)[m])

C12_Witness ==
    /\ pc = "select"
    /\ num_buffers >= 2
    /\ \A j \in Streams : NonDecreasing(StreamLines(j))
    /\ \E j \in Streams :
          /\ TakenFrom(j) >= 1
          /\ j \notin empty
          /\ buffers[j] # None
          /\ Len(StreamLines(j)) > TakenFrom(j) + 1

\* C13: each loop iteration writes exactly one record, taken from the
\* selected stream; the refresh after a write reads from that stream and no
\* other; the records read from a stream are at most one more than its
\* records written.
C13_OnlySelectedAdvances ==
    /\ [](InMerge => \A j \in Streams : ReadFrom(j) - TakenFrom(j) \in {0, 1})
    /\ []((pc = "refresh" /\ out # <<>>) =>
             {j \in Streams : NeedsRead(j)} = {min_index})
    /\ [][pc = "select" =>
             /\ Len(out') = Len(out) + 1
             /\ taken' = Append(taken, min_index')
             /\ out'[Len(out')] = buffers[min_index']]_vars
    /\ [][(pc = "refresh" /\ out # <<>>) =>
             \A j \in Streams \ {min_index} :
                 files'[j] = files[j] /\ buffers'[j] = buffers[j]]_vars

C13_Witness ==
    /\ pc = "refresh"
    /\ num_buffers >= 2
    /\ Len(out) >= 2
    /\ \E j \in Streams : ReadFrom(j) = TakenFrom(j) /\ j \notin empty
    /\ \E j \in Streams : ReadFrom(j) = TakenFrom(j) + 1

\* C14: refresh returns false exactly when every stream is in the exhausted
\* set after the call; a stream enters the set only by a read at the end of
\* its file; unshift leaves the set alone.
C14_RefreshResultAndExhausted ==
    /\ [][ArrayRefresh =>
             /\ (~refresh_result) <=> (empty' = Streams)
             /\ \A j \in empty' \ empty :
                   /\ NeedsRead(j)
                   /\ files[j].pos = Len(fs[files[j].name])
                   /\ buffers'[j] = <<>>]_vars
    /\ [][ArrayUnshift => empty' = empty]_vars
    /\ [](empty \subseteq Streams)

C14_Witness ==
    /\ pc = "array"
    /\ num_buffers >= 2
    /\ empty = Streams
    /\ ~refresh_result
    /\ \E j \in Streams : buffers[j] = None /\ files[j].pos > 0

\* C16: in the merge loop the index select returns is a key of the mapping
\* it was given and that stream holds a record: the write never gets the
\* end-of-stream marker or an empty buffer.
C16_SelectedIsActive ==
    /\ pc = "select" =>
          /\ select(get_dict) \in DOMAIN get_dict
          /\ get_dict[select(get_dict)] \notin {None, <<>>}
    /\ pc # "error"
    /\ \A k \in DOMAIN out : out[k] # <<>>

C16_Witness ==
    /\ pc = "select"
    /\ num_buffers >= 2
    /\ empty # {}
    /\ select(get_dict) \in DOMAIN get_dict

\* The records of the k-th block of the block list.
BlockLines(k) == Lines(fs[block_filenames[k]])

\* Every stream is exhausted and every record of every block is written.
MergeComplete ==
    /\ pc = "cleanup"
    /\ empty = Streams
    /\ num_buffers = Len(block_filenames)
    /\ \A k \in 1..Len(block_filenames) : OutFrom(k - 1) = BlockLines(k)
    /\ Len(out) = Len(join([k \in 1..Len(block_filenames) |-> BlockLines(k)]))

\* The loop steps still to come: two per record not yet written (its select
\* and the refresh after it), one more while a refresh is due.
RecordsOfBlocks ==
    Len(join([k \in 1..Len(block_filenames) |-> BlockLines(k)]))

Remaining ==
    2 * (RecordsOfBlocks - Len(out)) + (IF pc = "refresh" THEN 1 ELSE 0)

InLoop == pc \in {"refresh", "select"}

C17_BlocksNonDecreasing ==
    \A n \in Range(block_filenames) \cap DOMAIN fs :
        NonDecreasing(Lines(fs[n]))

\* The input offset at which the run of the k-th block (k from 1) starts:
\* write_block writes the text of the run, so the blocks before it account
\* for the input before it.
RECURSIVE RunStart(_)
RunStart(k) ==
    IF k = 1 THEN 0 ELSE RunStart(k - 1) + Len(fs[block_filenames[k - 1]])

RunText(k) ==
    SubSeq(infile, RunStart(k) + 1, RunStart(k + 1))

SplitDone == pc \in {"merge", "refresh", "select", "cleanup"}

\* C18: when split has returned, the block list is 0..N-1 in order, the
\* blocks' runs are non-empty, contiguous, start at record boundaries and
\* cover the whole input (a final partial run included), and the k-th block
\* holds exactly the records of the k-th run.
C18_BlocksAreContiguousRuns ==
    SplitDone =>
        /\ block_filenames = [k \in 1..Len(block_filenames) |-> k - 1]
        /\ RunStart(Len(block_filenames) + 1) = Len(infile)
        /\ \A k \in 1..Len(block_filenames) :
              /\ RunText(k) # <<>>
              /\ RunStart(k) = 0 \/ infile[RunStart(k)] = NL
              /\ SameMultiset(BlockLines(k), Lines(RunText(k)))

\* The run split has just read, in input order.
RunRead == Lines(SubSeq(infile, inpos - Len(join(lines)) + 1, inpos))

\* C19: a run read by split consists of whole records of the input, and its
\* records other than the last total at most block_size characters.
C19_RunWithinBudget ==
    pc = "write_block_open" =>
        /\ inpos = Len(infile) \/ infile[inpos] = NL
        /\ Len(join(SubSeq(RunRead, 1, Len(RunRead) - 1))) <= block_size

\* C20: the buffer size handed to merge is block_size divided by the number
\* of blocks split produced plus one, and the block count sort computed is
\* the number of blocks written.
C20_BufferSizeFromActualBlocks ==
    pc \in {"refresh", "select", "cleanup", "done"} =>
        /\ num_blocks = Len(block_filenames)
        /\ buffer_size = block_size \div (Len(block_filenames) + 1)

====
